---- MODULE Spec2Model ----
(***************************************************************************)
(* A model of the retry package: the Retry builder and its Run loop        *)
(* (retry.go), and the Retrier / Func.Do loop (retrier.go, func.go).       *)
(*                                                                         *)
(* Durations and clock readings are counted in abstract ticks.             *)
(***************************************************************************)
EXTENDS Integers, Sequences, FiniteSets, TLC

VARIABLES
    \* ---- Retry (retry.go) ----
    opts,            \* builder calls of the configuration chain still to be made
    sleepDur,        \* Retry.sleepDur: the closure computing the next sleep
    preConditions,   \* Retry.preConditions, with the state each closure captured
    postConditions,  \* Retry.postConditions
    pc,              \* position of the goroutine configuring and running the Retry
    err,             \* Run's local variable err
    failedPre,       \* index of the pre-condition whose error preCheck returned (0: none)
    failedPost,      \* index of the post-condition that voted stop in postCheck (0: none)
    rets,            \* the errors fn returned to Run, one per invocation, in order
    sleeps,          \* durations passed to time.Sleep by Run, in order
    remaining,       \* ticks left of the time.Sleep in progress
    now,             \* the wall clock (time.Now)
    ctxErr,          \* ctx.Err() of the context: Nil until it is cancelled
    cancelledAt,     \* where the running goroutine was when the context was cancelled
    logged,          \* the calls of a Log function: the condition's index and the error
    applied,         \* New and the builder calls made so far, each with the clock at the call
    \* ---- Retrier and Func.Do (retrier.go, func.go) ----
    retrier,         \* the Retrier's fields Delay, Floor, Ceil, Rate, Jitter
    doPC,            \* position of the goroutine inside Func.Do / Retrier.Wait
    doErr,           \* Do's local variable err
    doRet,           \* the error Do returned
    fCalls,          \* number of calls of f made by Do, over all its calls
    fLast,           \* the error f returned at its latest call
    doV,             \* Do's local variable v, the value Do returns
    fRets,           \* the results (value, error) of the calls of f, in order
    timerReady,      \* the channel of time.After(r.Delay) holds a value
    waits,           \* calls of Wait begun since New or the latest Reset
    \* ---- Backoff (backoff.go) ----
    boff,            \* the Backoff's fields Floor, Ceil, delay
    bPC,             \* position of the goroutine looping over Backoff.Wait
    bErr,            \* the error the latest Backoff.Wait returned
    \* ---- Listener (listener.go) ----
    lPC,             \* position of the goroutine calling Listener.Accept
    lCall,           \* number of calls of Listener.Accept begun
    retryDelay,      \* Accept's local variable retryDelay
    accepts,         \* the errors the wrapped Accept returned, in order, each with the
                     \* number of the call of Listener.Accept that received it
    lRet,            \* the error the latest Listener.Accept returned
    tmpLogged        \* the errors LogTmpErr was called with, in order

vars == <<opts, sleepDur, preConditions, postConditions, pc, err, failedPre,
          failedPost, rets, sleeps, remaining, now, ctxErr, cancelledAt,
          logged, applied,
          retrier, doPC, doErr, doRet, fCalls, fLast, doV, fRets, timerReady, waits,
          boff, bPC, bErr, lPC, lCall, retryDelay, accepts, lRet, tmpLogged>>

retryVars == <<opts, sleepDur, preConditions, postConditions, pc, err, failedPre,
               failedPost, rets, sleeps, remaining, now, cancelledAt, logged,
               applied>>

doVars == <<retrier, doPC, doErr, doRet, fCalls, fLast, doV, fRets, timerReady,
            waits>>

backoffVars == <<boff, bPC, bErr>>

listenerVars == <<lPC, lCall, retryDelay, accepts, lRet, tmpLogged>>

----------------------------------------------------------------------------
(* Bounds of the model.                                                    *)

\* Longest chain of builder calls made on a Retry before Run.
MaxOpts == 2

\* Invocations of the action after which the model stops exploring a run.
MaxCalls == 3

\* Latest clock reading explored.
MaxNow == 4

\* Calls of Run on one Retry after which the model stops exploring.
MaxRuns == 2

\* Calls of the wrapped listener's Accept after which the model stops exploring.
MaxAccepts == 10

\* Width in bits of the two's-complement word the model gives time.Duration
\* (an int64 in the program): arithmetic on durations wraps at this width.
DurBits == 6

----------------------------------------------------------------------------
(* Errors.  An error value is a base error under the layers wrapped around   *)
(* it, outermost first: "stack" for context added by errors.WithStack or    *)
(* errors.Wrap, "abort" for the abortError of Abort.  nil has base "nil".    *)

Nil == [base |-> "nil", layers |-> <<>>]

NewError(msg) == [base |-> msg, layers |-> <<>>]

\* errors.WithStack(e): nil stays nil, any other error gains one layer.
WithStack(e) == IF e = Nil THEN Nil ELSE [e EXCEPT !.layers = <<"stack">> \o @]

\* errors.Cause(e): unwrap while the error has a Cause method.
RECURSIVE Cause(_)
Cause(e) ==
    IF e.layers # <<>> /\ Head(e.layers) = "stack"
    THEN Cause([e EXCEPT !.layers = Tail(@)])
    ELSE e

\* err == checkErr for a sentinel error named b.
IsSentinel(e, b) == e.layers = <<>> /\ e.base = b

BaseErrs == {"E1", "E2", "E3"}

\* The sentinel errors the action also returns wrapped.
WrappedErrs == {"E1", "E2"}

\* What the caller's action may return: nil, a sentinel error, or a sentinel
\* error wrapped with added context.
ActionErrs ==
    {Nil} \cup {NewError(b) : b \in BaseErrs}
          \cup {WithStack(NewError(b)) : b \in WrappedErrs}

Canceled == NewError("context canceled")

\* The context has not been cancelled.
NotCancelled == [at |-> "none", remaining |-> 0, sleepNo |-> 0, fCalls |-> 0]

ErrNegative == NewError("negative max retry attempts")

ErrNoAttempts == NewError("no retry attempts left")

ErrTimedOut == NewError("retry timed out")

----------------------------------------------------------------------------
(* Inputs: the arguments of the builder calls.                             *)

SleepArgs == {1, 2}

AttemptsArgs == {-1, 0, 1, 2}

TimeoutArgs == {0, 2}

CeilArgs == {2}

CondSets == {{"E1", "E2"}, {"E2", "E3"}}

Opt(op, n, errs) == [op |-> op, n |-> n, errs |-> errs]

Options ==
    {Opt("Attempts", n, {}) : n \in AttemptsArgs}
        \cup {Opt("Context", 0, {})}
        \cup {Opt("Timeout", t, {}) : t \in TimeoutArgs}
        \cup {Opt("Backoff", c, {}) : c \in CeilArgs}
        \cup {Opt("ContinueOnNil", 0, {})}
        \cup {Opt(k, 0, s) : k \in {"OnErrors", "NotOnErrors"}, s \in CondSets}

OptionSeqs == UNION {[1..n -> Options] : n \in 0..MaxOpts}

\* The arguments of chains that only shape the sleep: New(sleep) with a zero,
\* a small and a large sleep, Backoff(ceil) and Jitter(rat), rat in tenths
\* (a rat of 1 is outside (0, 1)).
SleepPolicyArgs == {0, 1, 2, 24}

PolicyCeilArgs == {2, 4}

RatArgs == {1, 5, 10}

PolicyOptions ==
    {Opt("Backoff", c, {}) : c \in PolicyCeilArgs}
        \cup {Opt("Jitter", r, {}) : r \in RatArgs}

PolicySeqs == UNION {[1..n -> PolicyOptions] : n \in 0..MaxOpts}

\* The chains that only set budgets of attempts.
AttemptsSeqs ==
    UNION {[1..n -> {Opt("Attempts", a, {}) : a \in AttemptsArgs}] : n \in 1..MaxOpts}

\* r.Log(logFn)
LogOption == Opt("Log", 0, {})

\* The chains of builder calls that register a Log function.
LogSeqs ==
    {s \in UNION {[1..n -> Options \cup {LogOption}] : n \in 1..MaxOpts} :
         \E k \in 1..Len(s) : s[k] = LogOption}

----------------------------------------------------------------------------
(* Retry: conditions.                                                      *)

\* A pre-condition closure and the variables it captured.
PreCond(kind, max, deadline) ==
    [kind |-> kind, max |-> max, i |-> 0, deadline |-> deadline]

\* A post-condition closure and the error list it captured.
PostCond(kind, errs) == [kind |-> kind, errs |-> errs]

\* The closure New appends: retry while the error is not nil.
DefaultCond == PostCond("default", {})

\* CallPreCondition with the budget test off by one (i > maxAttempts).
CallPreConditionOffByOne(c, t, cerr) ==
    CASE c.kind = "attempts" ->
           IF c.max < 0 THEN [perr |-> ErrNegative, cond |-> c]
           ELSE IF c.i > c.max THEN [perr |-> ErrNoAttempts, cond |-> c]
           ELSE [perr |-> Nil, cond |-> [c EXCEPT !.i = @ + 1]]
      [] c.kind = "context" -> [perr |-> cerr, cond |-> c]
      [] c.kind = "timeout" ->
           IF t >= c.deadline THEN [perr |-> ErrTimedOut, cond |-> c]
           ELSE [perr |-> Nil, cond |-> c]

\* CallPreCondition with a Timeout that lets the instant of the deadline pass.
CallPreConditionAfterOnly(c, t, cerr) ==
    CASE c.kind = "attempts" ->
           IF c.max < 0 THEN [perr |-> ErrNegative, cond |-> c]
           ELSE IF c.i >= c.max THEN [perr |-> ErrNoAttempts, cond |-> c]
           ELSE [perr |-> Nil, cond |-> [c EXCEPT !.i = @ + 1]]
      [] c.kind = "context" -> [perr |-> cerr, cond |-> c]
      [] c.kind = "timeout" ->
           IF t > c.deadline THEN [perr |-> ErrTimedOut, cond |-> c]
           ELSE [perr |-> Nil, cond |-> c]

\* One call of a pre-condition closure: the error it returns and the closure
\* with its captured variables afterwards.
CallPreCondition(c, t, cerr) ==
    CASE c.kind = "attempts" ->
           IF c.max < 0 THEN [perr |-> ErrNegative, cond |-> c]
           ELSE IF c.i >= c.max THEN [perr |-> ErrNoAttempts, cond |-> c]
           ELSE [perr |-> Nil, cond |-> [c EXCEPT !.i = @ + 1]]
      [] c.kind = "context" -> [perr |-> cerr, cond |-> c]
      [] c.kind = "timeout" ->
           IF t >= c.deadline THEN [perr |-> ErrTimedOut, cond |-> c]
           ELSE [perr |-> Nil, cond |-> c]

\* preCheck from the k-th pre-condition on: the first error returned, the index
\* of the closure that returned it, and the closures afterwards.
RECURSIVE preCheckFrom(_, _, _, _)
preCheckFrom(conds, k, t, cerr) ==
    IF k > Len(conds) THEN [perr |-> Nil, idx |-> 0, conds |-> conds]
    ELSE LET r == CallPreCondition(conds[k], t, cerr)
             after == [conds EXCEPT ![k] = r.cond]
         IN  IF r.perr # Nil THEN [perr |-> r.perr, idx |-> k, conds |-> after]
             ELSE preCheckFrom(after, k + 1, t, cerr)

preCheck(conds, t, cerr) == preCheckFrom(conds, 1, t, cerr)

\* CallCondition with a default condition that retries on nil as well.
CallConditionNilRetries(c, e) ==
    CASE c.kind = "default" -> TRUE
      [] c.kind = "OnErrors" -> \E b \in c.errs : IsSentinel(e, b)
      [] c.kind = "NotOnErrors" -> ~(\E b \in c.errs : IsSentinel(e, b))
      [] c.kind = "Log" -> TRUE

\* CallCondition with an OnErrors that retries on every error, listed or not.
CallConditionOnAnyError(c, e) ==
    CASE c.kind = "default" -> e # Nil
      [] c.kind = "OnErrors" -> e # Nil
      [] c.kind = "NotOnErrors" -> ~(\E b \in c.errs : IsSentinel(e, b))
      [] c.kind = "Log" -> TRUE

\* CallCondition with a default condition that gives up on an error.
CallConditionErrorStops(c, e) ==
    CASE c.kind = "default" -> e = Nil
      [] c.kind = "OnErrors" -> \E b \in c.errs : IsSentinel(e, b)
      [] c.kind = "NotOnErrors" -> ~(\E b \in c.errs : IsSentinel(e, b))
      [] c.kind = "Log" -> TRUE

\* One call of a post-condition closure on an error: TRUE means retry.
CallCondition(c, e) ==
    CASE c.kind = "default" -> e # Nil
      [] c.kind = "OnErrors" -> \E b \in c.errs : IsSentinel(e, b)
      [] c.kind = "NotOnErrors" -> ~(\E b \in c.errs : IsSentinel(e, b))
      [] c.kind = "Log" -> TRUE

\* postCheckArg without the errors.Cause step.
postCheckArgRaw(e) == e

\* The error postCheck hands to the conditions.
postCheckArg(e) == Cause(e)

\* postCheckFrom with the conditions ORed: one vote to retry is enough.
postCheckFromAny(conds, k, e) ==
    IF \E i \in k..Len(conds) : CallCondition(conds[i], e) THEN 0
    ELSE IF k > Len(conds) THEN 0 ELSE k

\* postCheck from the k-th condition on: the index of the first condition
\* voting stop, 0 when all vote retry.
RECURSIVE postCheckFrom(_, _, _)
postCheckFrom(conds, k, e) ==
    IF k > Len(conds) THEN 0
    ELSE IF ~CallCondition(conds[k], e) THEN k
    ELSE postCheckFrom(conds, k + 1, e)

\* postCheck of a loop that returns on nil whatever the conditions are.
postCheckNilStops(conds, e) ==
    IF e = Nil THEN 1 ELSE postCheckFrom(conds, 1, postCheckArg(e))

postCheck(conds, e) == postCheckFrom(conds, 1, postCheckArg(e))

\* logCallsFrom calling every Log function, whatever the earlier conditions voted.
RECURSIVE logCallsAll(_, _, _)
logCallsAll(conds, k, e) ==
    IF k > Len(conds) THEN <<>>
    ELSE (IF conds[k].kind = "Log" THEN <<[cond |-> k, err |-> e]>> ELSE <<>>)
             \o logCallsAll(conds, k + 1, e)

\* The calls of Log functions postCheck makes from the k-th condition on: the
\* closure Log registers calls logFn(err) and votes retry; the walk ends at the
\* first condition voting stop.
RECURSIVE logCallsFrom(_, _, _)
logCallsFrom(conds, k, e) ==
    IF k > Len(conds) THEN <<>>
    ELSE IF ~CallCondition(conds[k], e) THEN <<>>
    ELSE (IF conds[k].kind = "Log" THEN <<[cond |-> k, err |-> e]>> ELSE <<>>)
             \o logCallsFrom(conds, k + 1, e)

logCalls(conds, e) == logCallsFrom(conds, 1, postCheckArg(e))

----------------------------------------------------------------------------
(* Retry: the sleep closure.                                               *)

MinDuration == -(2 ^ (DurBits - 1))

MaxDuration == 2 ^ (DurBits - 1) - 1

\* Integer arithmetic on time.Duration wraps around.
Wrap(x) == ((x - MinDuration) % (2 ^ DurBits)) + MinDuration

\* Division truncating toward zero.
TruncDiv(a, b) == IF a >= 0 THEN a \div b ELSE -((-a) \div b)

\* time.Duration(x) of a float64 x: truncation when x is in range; out of range
\* the result depends on the build (the minimum, or saturation).
ToDuration(x) ==
    IF x >= MinDuration /\ x <= MaxDuration THEN {x}
    ELSE IF x > 0 THEN {MinDuration, MaxDuration}
    ELSE {MinDuration}

\* The closure r.sleepDur: the closure New or Backoff made, and the ratios of
\* the Jitter closures wrapped around it, innermost first.
ConstSleep(d) == [kind |-> "const", delay |-> d, ceil |-> 0, jitter |-> <<>>]

BackoffSleep(d, c) == [kind |-> "backoff", delay |-> d, ceil |-> c, jitter |-> <<>>]

growth == 2

\* The delay captured by the Backoff closure after one call.
BackoffStep(delay, ceil) ==
    IF delay < ceil
    THEN (IF Wrap(delay * growth) > ceil THEN ceil ELSE Wrap(delay * growth))
    ELSE delay

\* One call of the closure New or Backoff made: the duration returned and the
\* closure afterwards.
CallSleepDur(sd) ==
    CASE sd.kind = "const" -> [dur |-> sd.delay, next |-> sd]
      [] sd.kind = "backoff" ->
           [dur |-> sd.delay,
            next |-> [sd EXCEPT !.delay = BackoffStep(sd.delay, sd.ceil)]]

\* The rat of Jitter is given in tenths.
RatDen == 10

\* Int63n(n) of a rand.Rand that also returns n.
Int63nUpTo(n) == 0..n

\* rnd.Int63n(n) for n > 0: any value of [0, n).
Int63n(n) == 0..(n - 1)

\* The body of the closure Jitter makes, given what underlyingSleep returned:
\* every duration the random draw allows, or the panic of Int63n when its
\* argument is not positive.
jitterDur(dur, rat) ==
    LET mins == ToDuration(TruncDiv(dur * (RatDen - rat), RatDen))
        maxs == ToDuration(TruncDiv(dur * (RatDen + rat), RatDen))
        outs(mi, ma) ==
            IF Wrap(ma - mi) <= 0 THEN {[dur |-> 0, panic |-> TRUE]}
            ELSE {[dur |-> Wrap(mi + k), panic |-> FALSE] : k \in Int63n(Wrap(ma - mi))}
    IN  UNION {outs(mi, ma) : mi \in mins, ma \in maxs}

\* The Jitter closures applied in turn to the outcomes of the closure below.
RECURSIVE Jittered(_, _)
Jittered(outs, layers) ==
    IF layers = <<>> THEN outs
    ELSE Jittered(UNION {IF o.panic THEN {o} ELSE jitterDur(o.dur, Head(layers)) :
                            o \in outs},
                  Tail(layers))

\* One call of r.sleepDur(): every outcome it may have, each with the closure
\* afterwards.
SleepDurCalls(sd) ==
    LET b == CallSleepDur(sd)
    IN  {[dur |-> o.dur, panic |-> o.panic, next |-> b.next] :
            o \in Jittered({[dur |-> b.dur, panic |-> FALSE]}, sd.jitter)}

----------------------------------------------------------------------------
(* Retry: construction and the builder calls.                              *)

\* The zero value of Func's type parameter T, which Do's v holds until f is
\* called.
ZeroValue == ""

\* No Backoff is in use.
BackoffIdle ==
    /\ boff = [Floor |-> 0, Ceil |-> 0, delay |-> 0]
    /\ bPC = "idle"
    /\ bErr = Nil

\* No Listener is in use.
ListenerIdle ==
    /\ lPC = "idle"
    /\ lCall = 0
    /\ retryDelay = 0
    /\ accepts = <<>>
    /\ lRet = Nil
    /\ tmpLogged = <<>>

\* Func.Do and the Retrier take no part in a Retry's life.
DoIdle ==
    /\ retrier = [Delay |-> 0, Floor |-> 0, Ceil |-> 0, Rate |-> 1, Jitter |-> FALSE]
    /\ doPC = "idle"
    /\ doErr = Nil
    /\ doRet = Nil
    /\ fCalls = 0
    /\ fLast = Nil
    /\ doV = ZeroValue
    /\ fRets = <<>>
    /\ timerReady = FALSE
    /\ waits = 0

\* The state after New(sleep), with one of the given chains of builder calls
\* still to make.
InitWith(chains, sleepArgs) ==
    /\ opts \in chains
    /\ \E s \in sleepArgs :
           /\ sleepDur = ConstSleep(s)
           /\ applied = <<[opt |-> Opt("New", s, {}), at |-> 0]>>
    /\ preConditions = <<>>
    /\ postConditions = <<DefaultCond>>
    /\ pc = "config"
    /\ err = Nil
    /\ failedPre = 0
    /\ failedPost = 0
    /\ rets = <<>>
    /\ sleeps = <<>>
    /\ remaining = 0
    /\ now = 0
    /\ ctxErr = Nil
    /\ cancelledAt = NotCancelled
    /\ logged = <<>>
    /\ DoIdle
    /\ BackoffIdle
    /\ ListenerIdle

InitOver(chains) == InitWith(chains, SleepArgs)

Init == InitOver(OptionSeqs)

\* The same for a Retry that is given a Log function.
InitLog == InitOver(LogSeqs)

\* Number of invocations of fn made by Run.
calls == Len(rets)

\* The error fn returned at its latest invocation.
lastRet == IF rets = <<>> THEN Nil ELSE rets[Len(rets)]

runState == <<err, failedPre, failedPost, rets, sleeps, remaining, logged>>

NextOpt(op) == pc = "config" /\ opts # <<>> /\ Head(opts).op = op

\* r.Attempts(maxAttempts)
Attempts ==
    /\ NextOpt("Attempts")
    /\ preConditions' = Append(preConditions, PreCond("attempts", Head(opts).n, 0))
    /\ opts' = Tail(opts)
    /\ applied' = Append(applied, [opt |-> Head(opts), at |-> now])
    /\ UNCHANGED <<sleepDur, postConditions, pc, runState, now, ctxErr, cancelledAt>>
    /\ UNCHANGED <<doVars, backoffVars, listenerVars>>

\* r.Context(ctx)
Context ==
    /\ NextOpt("Context")
    /\ preConditions' = Append(preConditions, PreCond("context", 0, 0))
    /\ opts' = Tail(opts)
    /\ applied' = Append(applied, [opt |-> Head(opts), at |-> now])
    /\ UNCHANGED <<sleepDur, postConditions, pc, runState, now, ctxErr, cancelledAt>>
    /\ UNCHANGED <<doVars, backoffVars, listenerVars>>

\* r.Timeout(to)
Timeout ==
    /\ NextOpt("Timeout")
    /\ preConditions' =
           IF Head(opts).n = 0 THEN preConditions
           ELSE Append(preConditions, PreCond("timeout", 0, now + Head(opts).n))
    /\ opts' = Tail(opts)
    /\ applied' = Append(applied, [opt |-> Head(opts), at |-> now])
    /\ UNCHANGED <<sleepDur, postConditions, pc, runState, now, ctxErr, cancelledAt>>
    /\ UNCHANGED <<doVars, backoffVars, listenerVars>>

\* A Backoff that keeps the Jitter closures around the closure it replaces.
BackoffKeepsJitter ==
    /\ NextOpt("Backoff")
    /\ \E d \in SleepDurCalls(sleepDur) :
         IF d.panic
         THEN pc' = "panic" /\ UNCHANGED sleepDur
         ELSE /\ sleepDur' = [BackoffSleep(d.dur, Head(opts).n) EXCEPT
                                 !.jitter = sleepDur.jitter]
              /\ UNCHANGED pc
    /\ opts' = Tail(opts)
    /\ applied' = Append(applied, [opt |-> Head(opts), at |-> now])
    /\ UNCHANGED <<preConditions, postConditions, runState, now, ctxErr, cancelledAt>>
    /\ UNCHANGED <<doVars, backoffVars, listenerVars>>

\* r.Backoff(ceil): the current closure is called once for the starting delay
\* and then dropped.
Backoff ==
    /\ NextOpt("Backoff")
    /\ \E d \in SleepDurCalls(sleepDur) :
         IF d.panic
         THEN pc' = "panic" /\ UNCHANGED sleepDur
         ELSE sleepDur' = BackoffSleep(d.dur, Head(opts).n) /\ UNCHANGED pc
    /\ opts' = Tail(opts)
    /\ applied' = Append(applied, [opt |-> Head(opts), at |-> now])
    /\ UNCHANGED <<preConditions, postConditions, runState, now, ctxErr, cancelledAt>>
    /\ UNCHANGED <<doVars, backoffVars, listenerVars>>

\* r.Jitter(rat): panics unless rat is in (0, 1); otherwise wraps the current
\* closure.
Jitter ==
    /\ NextOpt("Jitter")
    /\ IF Head(opts).n <= 0 \/ Head(opts).n >= RatDen
       THEN pc' = "panic" /\ UNCHANGED sleepDur
       ELSE sleepDur' = [sleepDur EXCEPT !.jitter = Append(@, Head(opts).n)] /\ UNCHANGED pc
    /\ opts' = Tail(opts)
    /\ applied' = Append(applied, [opt |-> Head(opts), at |-> now])
    /\ UNCHANGED <<preConditions, postConditions, runState, now, ctxErr, cancelledAt>>
    /\ UNCHANGED <<doVars, backoffVars, listenerVars>>

\* r.ContinueOnNil(): r.postConditions[1:], which panics on an empty slice.
ContinueOnNil ==
    /\ NextOpt("ContinueOnNil")
    /\ IF postConditions = <<>>
       THEN pc' = "panic" /\ UNCHANGED postConditions
       ELSE postConditions' = Tail(postConditions) /\ UNCHANGED pc
    /\ opts' = Tail(opts)
    /\ applied' = Append(applied, [opt |-> Head(opts), at |-> now])
    /\ UNCHANGED <<sleepDur, preConditions, runState, now, ctxErr, cancelledAt>>
    /\ UNCHANGED <<doVars, backoffVars, listenerVars>>

\* r.Conditions(OnErrors(errs...)), r.Conditions(NotOnErrors(errs...)) and
\* r.Log(logFn), which is r.Conditions of a closure around logFn; a call with
\* several conditions appends them as successive calls do.
Conditions ==
    /\ pc = "config" /\ opts # <<>> /\ Head(opts).op \in {"OnErrors", "NotOnErrors", "Log"}
    /\ postConditions' = Append(postConditions, PostCond(Head(opts).op, Head(opts).errs))
    /\ opts' = Tail(opts)
    /\ applied' = Append(applied, [opt |-> Head(opts), at |-> now])
    /\ UNCHANGED <<sleepDur, preConditions, pc, runState, now, ctxErr, cancelledAt>>
    /\ UNCHANGED <<doVars, backoffVars, listenerVars>>

----------------------------------------------------------------------------
(* Retry.Run.                                                              *)

\* r.Run(fn) is entered once the chain of builder calls is complete.
RunStart ==
    /\ pc = "config" /\ opts = <<>>
    /\ pc' = "pre"
    /\ UNCHANGED <<opts, applied, sleepDur, preConditions, postConditions, runState, now,
                   ctxErr, cancelledAt>>
    /\ UNCHANGED <<doVars, backoffVars, listenerVars>>

\* runReturnOnPre of a Run that keeps the last error of fn, as Attempts documents.
runReturnLastOnPre(perr, last) == IF last # Nil THEN last ELSE perr

\* What Run returns when preCheck returned perr # nil, fn having last returned last.
runReturnOnPre(perr, last) == perr

\* err := r.preCheck(); if err != nil { return err }
PreCheck ==
    /\ pc = "pre"
    /\ LET r == preCheck(preConditions, now, ctxErr)
       IN  /\ preConditions' = r.conds
           /\ failedPre' = r.idx
           /\ IF r.perr # Nil
              THEN err' = runReturnOnPre(r.perr, lastRet) /\ pc' = "done"
              ELSE err' = Nil /\ pc' = "call"
    /\ UNCHANGED <<opts, applied, logged, sleepDur, postConditions, failedPost, rets, sleeps,
                   remaining, now, ctxErr, cancelledAt>>
    /\ UNCHANGED <<doVars, backoffVars, listenerVars>>

\* err = fn(): the action returns any of its possible results.
Call ==
    /\ pc = "call" /\ calls < MaxCalls
    /\ \E e \in ActionErrs : err' = e /\ rets' = Append(rets, e)
    /\ pc' = "post"
    /\ UNCHANGED <<opts, applied, logged, sleepDur, preConditions, postConditions,
                   failedPre, failedPost,
                   sleeps, remaining, now, ctxErr, cancelledAt>>
    /\ UNCHANGED <<doVars, backoffVars, listenerVars>>

\* PostCheck of a Run that goes on to the next iteration without sleeping.
PostCheckNoSleep ==
    /\ pc = "post"
    /\ logged' = logged \o logCalls(postConditions, err)
    /\ LET k == postCheck(postConditions, err)
       IN  IF k # 0
           THEN failedPost' = k /\ pc' = "done"
           ELSE pc' = "pre" /\ UNCHANGED failedPost
    /\ UNCHANGED <<sleepDur, sleeps, remaining>>
    /\ UNCHANGED <<opts, applied, preConditions, postConditions, err, failedPre, rets,
                   now, ctxErr, cancelledAt>>
    /\ UNCHANGED <<doVars, backoffVars, listenerVars>>

\* if !r.postCheck(err) { return err }; otherwise time.Sleep(r.sleepDur()) begins.
PostCheck ==
    /\ pc = "post"
    /\ logged' = logged \o logCalls(postConditions, err)
    /\ LET k == postCheck(postConditions, err)
       IN  IF k # 0
           THEN /\ failedPost' = k
                /\ pc' = "done"
                /\ UNCHANGED <<sleepDur, sleeps, remaining>>
           ELSE \E d \in SleepDurCalls(sleepDur) :
                /\ sleepDur' = d.next
                /\ UNCHANGED failedPost
                /\ IF d.panic
                   THEN pc' = "panic" /\ UNCHANGED <<sleeps, remaining>>
                   ELSE /\ sleeps' = Append(sleeps, d.dur)
                        /\ remaining' = d.dur
                        /\ pc' = "sleep"
    /\ UNCHANGED <<opts, applied, preConditions, postConditions, err, failedPre, rets,
                   now, ctxErr, cancelledAt>>
    /\ UNCHANGED <<doVars, backoffVars, listenerVars>>

\* sleepOver of a sleep that returns at once.
sleepOverAtOnce(rem, cerr) == TRUE

\* sleepOver of a sleep that races against the context.
sleepOverOrCancelled(rem, cerr) == rem = 0 \/ cerr # Nil

\* Whether time.Sleep returns: only the elapsed time counts, and a negative or
\* zero duration returns at once.
sleepOver(rem, cerr) == rem <= 0

\* time.Sleep returns and the loop starts its next iteration.
Wake ==
    /\ pc = "sleep" /\ sleepOver(remaining, ctxErr)
    /\ pc' = "pre"
    /\ remaining' = 0
    /\ UNCHANGED <<opts, applied, logged, sleepDur, preConditions, postConditions, err,
                   failedPre,
                   failedPost, rets, sleeps, now, ctxErr, cancelledAt>>
    /\ UNCHANGED <<doVars, backoffVars, listenerVars>>

\* Only a Timeout pre-condition reads time.Now.
ClockRead == \E k \in 1..Len(preConditions) : preConditions[k].kind = "timeout"

\* The next builder call is a Timeout that reads the clock.
TimeoutNext == opts # <<>> /\ Head(opts).op = "Timeout" /\ Head(opts).n # 0

\* Time passes: during a sleep, and, where the clock is read at all, before a
\* call of Timeout, before Run is entered and while the action runs.
Tick ==
    /\ now < MaxNow
    /\ \/ pc = "sleep" /\ remaining > 0
       \/ pc = "call" /\ ClockRead
       \/ pc = "config" /\ (TimeoutNext \/ (opts = <<>> /\ ClockRead))
    /\ now' = now + 1
    /\ remaining' = IF pc = "sleep" THEN remaining - 1 ELSE remaining
    /\ UNCHANGED <<opts, applied, logged, sleepDur, preConditions, postConditions, pc,
                   err, failedPre,
                   failedPost, rets, sleeps, ctxErr, cancelledAt>>
    /\ UNCHANGED <<doVars, backoffVars, listenerVars>>

\* The context handed to r.Context.
CtxBound ==
    \/ \E k \in 1..Len(preConditions) : preConditions[k].kind = "context"
    \/ \E k \in 1..Len(opts) : opts[k].op = "Context"

\* The owner of the context cancels it, at any moment of the Retry's life.
Cancel ==
    /\ CtxBound /\ ctxErr = Nil
    /\ pc \in {"config", "pre", "call", "post", "sleep"}
    /\ ctxErr' = Canceled
    /\ cancelledAt' = [at |-> pc, remaining |-> remaining, sleepNo |-> Len(sleeps),
                       fCalls |-> 0]
    /\ UNCHANGED <<opts, applied, sleepDur, preConditions, postConditions, pc, runState, now>>
    /\ UNCHANGED <<doVars, backoffVars, listenerVars>>

Next ==
    \/ Attempts
    \/ Context
    \/ Timeout
    \/ Backoff
    \/ ContinueOnNil
    \/ Conditions
    \/ RunStart
    \/ PreCheck
    \/ Call
    \/ PostCheck
    \/ Wake
    \/ Tick
    \/ Cancel

Spec == Init /\ [][Next]_vars

\* The calls of Run made on the Retry after its first.
reruns == {k \in 1..Len(applied) : applied[k].opt.op = "Run"}

\* A further Run whose pre-conditions start afresh.
RunAgainFresh ==
    /\ pc = "done" /\ Cardinality(reruns) + 1 < MaxRuns
    /\ pc' = "pre"
    /\ applied' = Append(applied, [opt |-> Opt("Run", calls, {}), at |-> now])
    /\ preConditions' = [k \in 1..Len(preConditions) |->
                            IF preConditions[k].kind = "attempts"
                            THEN [preConditions[k] EXCEPT !.i = 0]
                            ELSE preConditions[k]]
    /\ err' = Nil
    /\ failedPre' = 0
    /\ failedPost' = 0
    /\ UNCHANGED <<opts, sleepDur, postConditions, rets, sleeps, remaining, logged,
                   now, ctxErr, cancelledAt>>
    /\ UNCHANGED <<doVars, backoffVars, listenerVars>>

\* r.Run(fn) is called again on a Retry whose Run has returned: the loop starts
\* over with the closures as the Run before left them. The call is recorded
\* with the number of invocations made before it.
RunAgain ==
    /\ pc = "done" /\ Cardinality(reruns) + 1 < MaxRuns
    /\ pc' = "pre"
    /\ applied' = Append(applied, [opt |-> Opt("Run", calls, {}), at |-> now])
    /\ err' = Nil
    /\ failedPre' = 0
    /\ failedPost' = 0
    /\ UNCHANGED <<opts, sleepDur, preConditions, postConditions, rets, sleeps, remaining,
                   logged, now, ctxErr, cancelledAt>>
    /\ UNCHANGED <<doVars, backoffVars, listenerVars>>

\* A Retry with budgets of attempts on which Run is called more than once.
InitRerun == InitOver(AttemptsSeqs)

NextRerun ==
    \/ Attempts
    \/ RunStart
    \/ PreCheck
    \/ Call
    \/ PostCheck
    \/ Wake
    \/ Tick
    \/ RunAgain

SpecRerun == InitRerun /\ [][NextRerun]_vars

\* A Retry whose chain only shapes the sleep: New(sleep) followed by calls of
\* Backoff and Jitter, then Run.
InitSleep == InitWith(PolicySeqs, SleepPolicyArgs)

NextSleep ==
    \/ Backoff
    \/ Jitter
    \/ RunStart
    \/ PreCheck
    \/ Call
    \/ PostCheck
    \/ Wake
    \/ Tick

SpecSleep == InitSleep /\ [][NextSleep]_vars

SpecLog == InitLog /\ [][Next]_vars

----------------------------------------------------------------------------
(* Properties of Retry.Run.                                                *)

\* Run has been entered.
Running == pc \in {"pre", "call", "post", "sleep", "done"}

\* Run returned because a pre-condition of the given kind failed.
StoppedByPre(kind) ==
    pc = "done" /\ failedPre # 0 /\ preConditions[failedPre].kind = kind

\* The Retry is New(s).Attempts(n) with n >= 1 and nothing else.
AttemptsOnly ==
    /\ Len(preConditions) = 1
    /\ preConditions[1].kind = "attempts"
    /\ preConditions[1].max >= 1
    /\ postConditions = <<DefaultCond>>
    /\ sleepDur.kind = "const"

AllFailed == \A k \in 1..Len(rets) : rets[k] # Nil

\* C1: on New(s).Attempts(n), n >= 1, the action is never invoked more than n
\* times, and when every invocation returned a non-nil error Run returns
\* after exactly n invocations.
C1_AttemptsExactlyN ==
    (Running /\ AttemptsOnly) =>
        /\ calls <= preConditions[1].max
        /\ (pc = "done" /\ AllFailed) => calls = preConditions[1].max

C1_Witness ==
    /\ AttemptsOnly /\ preConditions[1].max = 2
    /\ pc = "done" /\ AllFailed /\ calls = 2

\* C2: when the Attempts(n) budget, n >= 1, stops Run after n failing
\* invocations, Run returns the error of the n-th invocation.
C2_ExhaustionReturnsLastError ==
    (StoppedByPre("attempts") /\ preConditions[failedPre].max >= 1
        /\ calls = preConditions[failedPre].max /\ AllFailed)
    => err = lastRet

\* ContinueOnNil has not been called: the condition of New is still first.
DefaultInPlace == postConditions # <<>> /\ Head(postConditions) = DefaultCond

\* C3: with the default post-condition in place, once an invocation returned
\* nil Run makes no further invocation and no sleep (every earlier invocation
\* was followed by one sleep) and returns nil, whatever options are set.
C3_ReturnsOnFirstNil ==
    (Running /\ DefaultInPlace /\ calls > 0) =>
        /\ \A k \in 1..(calls - 1) : rets[k] # Nil
        /\ lastRet = Nil =>
             /\ pc \in {"post", "done"}
             /\ Len(sleeps) = calls - 1
             /\ pc = "done" => (err = Nil /\ failedPre = 0)

C3_Witness ==
    /\ DefaultInPlace /\ pc = "done" /\ err = Nil
    /\ calls = 2 /\ rets[1] # Nil /\ rets[2] = Nil
    /\ sleepDur.kind = "backoff"
    /\ preConditions # <<>>

C5_PreStopCauseIsLastError ==
    ((StoppedByPre("context") \/ StoppedByPre("timeout")) /\ calls >= 1)
    => Cause(err) = Cause(lastRet)

OnErrorsOnly == Len(postConditions) = 2 /\ DefaultInPlace /\ postConditions[2].kind = "OnErrors"

InErrs(e, errs) == \E b \in errs : Cause(e) = NewError(b)

\* C8: with Conditions(OnErrors(S)), every attempt after which Run went on has
\* its root cause in S, and the attempt at which a post-condition stopped Run
\* has not; that attempt's error is what Run returns.
C8_OnErrorsRetriesOnlyListed ==
    (Running /\ OnErrorsOnly) =>
        /\ \A k \in 1..(calls - 1) : InErrs(rets[k], postConditions[2].errs)
        /\ (pc \in {"sleep", "pre", "call"} /\ calls > 0)
               => InErrs(lastRet, postConditions[2].errs)
        /\ (pc = "done" /\ failedPre = 0)
               => (~InErrs(lastRet, postConditions[2].errs) /\ err = lastRet)

C8_Witness ==
    /\ OnErrorsOnly /\ postConditions[2].errs = {"E1", "E2"}
    /\ pc = "done"
    /\ rets = <<NewError("E1"), NewError("E2"), NewError("E3")>>
    /\ err = NewError("E3")

\* The Retry has Conditions(NotOnErrors(A), OnErrors(B)) after the default.
NotOnThenOn ==
    /\ Len(postConditions) = 3 /\ DefaultInPlace
    /\ postConditions[2].kind = "NotOnErrors"
    /\ postConditions[3].kind = "OnErrors"

MayRetry(e) ==
    /\ Cause(e) # Nil
    /\ InErrs(e, postConditions[3].errs)
    /\ ~InErrs(e, postConditions[2].errs)

\* C9: with Conditions(NotOnErrors(A), OnErrors(B)), Run goes on to the sleep
\* after an attempt exactly when the attempt's root cause is non-nil, in B and
\* not in A; otherwise Run returns that attempt's error.
C9_ConditionsAreAnded ==
    (Running /\ NotOnThenOn) =>
        /\ pc = "sleep" => MayRetry(lastRet)
        /\ (pc = "done" /\ failedPre = 0) => (~MayRetry(lastRet) /\ err = lastRet)

C9_Witness ==
    /\ NotOnThenOn /\ pc = "done" /\ failedPost = 2
    /\ calls >= 2
    /\ InErrs(lastRet, postConditions[3].errs)
    /\ err = lastRet

\* The vote of a condition on an error, from the condition's meaning.
Votes(c, e) ==
    CASE c.kind = "default" -> e # Nil
      [] c.kind = "OnErrors" -> e \in {NewError(b) : b \in c.errs}
      [] c.kind = "NotOnErrors" -> e \notin {NewError(b) : b \in c.errs}
      [] c.kind = "Log" -> TRUE

\* C10: the post-conditions decide on the root cause of the action's error (a
\* wrapped error is retried or rejected as its cause is), and the error Run
\* returns when a post-condition stops it is the error as the action returned
\* it, wrapping included.
C10_ConditionsSeeCauseRunReturnsRaw ==
    /\ pc = "sleep" =>
           \A k \in 1..Len(postConditions) : Votes(postConditions[k], Cause(lastRet))
    /\ (pc = "done" /\ failedPre = 0) =>
           /\ failedPost \in 1..Len(postConditions)
           /\ ~Votes(postConditions[failedPost], Cause(lastRet))
           /\ \A k \in 1..(failedPost - 1) : Votes(postConditions[k], Cause(lastRet))
           /\ err = lastRet

C10_Witness ==
    /\ pc = "done" /\ failedPost = 2
    /\ postConditions[2].kind = "NotOnErrors"
    /\ lastRet = WithStack(NewError("E2"))
    /\ err = WithStack(NewError("E2"))
    /\ calls = 2 /\ rets[1] = WithStack(NewError("E1"))

\* The attempts whose error postCheck has examined.
checked == IF pc = "post" THEN calls - 1 ELSE calls

\* The builder call op has been made.
Applied(op) == \E k \in 1..Len(applied) : applied[k].opt.op = op

\* The Retry is New(s).ContinueOnNil().Context(ctx), in either order.
ContinueOnNilWithContext ==
    /\ postConditions = <<>>
    /\ Len(preConditions) = 1 /\ preConditions[1].kind = "context"

\* C12: after ContinueOnNil a nil result does not stop Run: Run returns only
\* when a pre-condition fails or a post-condition added by Conditions votes
\* stop, and until then every examined attempt, nil or not, is followed by a
\* sleep; on New(s).ContinueOnNil().Context(ctx) with the context cancelled
\* during the second invocation, the action is invoked exactly twice and Run
\* returns ctx.Err().
C12_ContinueOnNilKeepsGoing ==
    (Running /\ Applied("ContinueOnNil")) =>
        /\ pc = "done" =>
               \/ failedPre # 0
               \/ /\ failedPost \in 1..Len(postConditions)
                  /\ postConditions[failedPost].kind \in {"OnErrors", "NotOnErrors"}
                  /\ ~Votes(postConditions[failedPost], Cause(lastRet))
        /\ failedPost = 0 => Len(sleeps) = checked
        /\ (ContinueOnNilWithContext /\ cancelledAt.at = "post" /\ cancelledAt.sleepNo = 1) =>
               /\ calls = 2
               /\ pc = "done" => err = Canceled

C12_Witness ==
    /\ Applied("ContinueOnNil") /\ ContinueOnNilWithContext
    /\ cancelledAt.at = "post" /\ cancelledAt.sleepNo = 1
    /\ pc = "done" /\ err = Canceled
    /\ rets = <<Nil, Nil>>
    /\ Len(sleeps) = 2

RECURSIVE SumSeq(_)
SumSeq(q) == IF q = <<>> THEN 0 ELSE Head(q) + SumSeq(Tail(q))

\* The k-th value of the delay policy: the sleep given to New, or, after
\* Backoff(ceil), that sleep doubled k - 1 times and capped at ceil (a sleep
\* that starts at or above ceil stays as it is).
PolicyValue(k) ==
    LET d0 == applied[1].opt.n
        c  == sleepDur.ceil
    IN  IF ~Applied("Backoff") \/ d0 >= c THEN d0
        ELSE IF d0 * growth ^ (k - 1) > c THEN c ELSE d0 * growth ^ (k - 1)

\* C13: between two consecutive invocations there is exactly one sleep, it has
\* run in full before the later invocation, and the k-th sleep lasts the k-th
\* value of the delay policy; no sleep precedes the first invocation.
C13_OneFullSleepBetweenInvocations ==
    Running =>
        /\ Len(sleeps) = IF pc = "post" \/ (pc = "done" /\ failedPost # 0)
                         THEN calls - 1 ELSE calls
        /\ pc # "sleep" => remaining = 0
        /\ SumSeq(sleeps) - remaining <= now
        /\ \A k \in 1..Len(sleeps) : sleeps[k] = PolicyValue(k)

C13_Witness ==
    /\ pc = "post" /\ calls = 3
    /\ Applied("Backoff") /\ applied[1].opt.n = 1
    /\ sleeps = <<1, 2>>
    /\ now = 3

\* The calls of Timeout made with a duration other than 0.
TimeoutCalls == SelectSeq(applied, LAMBDA a : a.opt.op = "Timeout" /\ a.opt.n # 0)

\* The pre-conditions registered by Timeout.
TimeoutConds == SelectSeq(preConditions, LAMBDA c : c.kind = "timeout")

\* Each Timeout(d) with d # 0, and no Timeout(0), has registered a deadline,
\* which is the clock at that call plus d; a Run stopped by a Timeout finds
\* the clock at or past the deadline and returns the time-out error.
DeadlinesFixedAtCall ==
    /\ Len(TimeoutConds) = Len(TimeoutCalls)
    /\ \A k \in 1..Len(TimeoutCalls) :
           TimeoutConds[k].deadline = TimeoutCalls[k].at + TimeoutCalls[k].opt.n
    /\ StoppedByPre("timeout") =>
           /\ now >= preConditions[failedPre].deadline
           /\ err = ErrTimedOut

\* The pre-check lets Run through to the action only strictly before every
\* deadline.
InvokedBeforeDeadline ==
    (pc = "pre" /\ pc' = "call") =>
        \A k \in 1..Len(TimeoutConds) : now < TimeoutConds[k].deadline

\* C14: Timeout(d) with d # 0 fixes the deadline at the clock of the call of
\* Timeout plus d, whenever Run starts; Run invokes the action only when the
\* clock read at the pre-check is strictly before the deadline, and stops with
\* the time-out error otherwise; Timeout(0) adds no deadline.
C14_TimeoutDeadlineFromCall == [](DeadlinesFixedAtCall) /\ [][InvokedBeforeDeadline]_vars

C14_Witness ==
    /\ StoppedByPre("timeout") /\ calls >= 1
    /\ Len(TimeoutCalls) = 1 /\ TimeoutCalls[1].at = 1
    /\ preConditions[failedPre].deadline = 3
    /\ now = 3

\* Attempts(0) is among the builder calls made.
AttemptsZero ==
    \E k \in 1..Len(preConditions) :
        preConditions[k].kind = "attempts" /\ preConditions[k].max = 0

\* C15: on a Retry configured with Attempts(0), Run returns a nil error on
\* any call.
C15_AttemptsZeroReturnsNil == (pc = "done" /\ AttemptsZero) => err = Nil

\* The Retry is New(sleep), with or without Backoff: no Attempts, Timeout,
\* Context or Conditions.
Unbounded == preConditions = <<>> /\ postConditions = <<DefaultCond>>

\* C16: a Retry made by New(sleep) with no Attempts, Timeout, Context or
\* extra Conditions never returns while the action keeps returning a non-nil
\* error: Run has returned exactly when the latest examined result is nil,
\* it then returns nil, and every earlier result was an error.
C16_UnboundedRunsUntilNil ==
    (Running /\ Unbounded) =>
        /\ pc = "done" <=> (checked >= 1 /\ rets[checked] = Nil)
        /\ pc = "done" =>
               /\ err = Nil
               /\ \A k \in 1..(calls - 1) : rets[k] # Nil
        /\ AllFailed => pc # "done"

C16_Witness ==
    /\ Unbounded /\ pc = "done" /\ err = Nil
    /\ rets = <<NewError("E1"), WithStack(NewError("E2")), Nil>>
    /\ Len(sleeps) = 2

----------------------------------------------------------------------------
(* Properties of Retry.Run with a Log function.                            *)

\* Every post-condition registered before the j-th votes retry on e.
PassesBefore(j, e) == \A i \in 1..(j - 1) : Votes(postConditions[i], e)

\* The root causes, among the first n attempts' errors, that pass every
\* post-condition registered before the j-th.
RECURSIVE ReachedLog(_, _)
ReachedLog(j, n) ==
    IF n = 0 THEN <<>>
    ELSE ReachedLog(j, n - 1)
             \o (IF PassesBefore(j, Cause(rets[n])) THEN <<Cause(rets[n])>> ELSE <<>>)

\* The errors the Log function registered as j-th post-condition was called with.
LoggedBy(j) ==
    LET own == SelectSeq(logged, LAMBDA x : x.cond = j)
    IN  [k \in 1..Len(own) |-> own[k].err]

\* C11: a Log function never stops the loop; it is called with an attempt's
\* error exactly when every post-condition registered before it voted to
\* continue, once per such attempt and in the attempts' order, so an error an
\* earlier condition rejects is not logged; behind the default condition it is
\* never called with nil.
C11_LogSeesWhatEarlierConditionsPass ==
    Running =>
        /\ \A j \in 1..Len(postConditions) :
               postConditions[j].kind = "Log" => LoggedBy(j) = ReachedLog(j, checked)
        /\ \A k \in 1..Len(logged) :
               /\ logged[k].cond \in 1..Len(postConditions)
               /\ postConditions[logged[k].cond].kind = "Log"
        /\ failedPost # 0 => postConditions[failedPost].kind # "Log"
        /\ DefaultInPlace => \A k \in 1..Len(logged) : logged[k].err # Nil

C11_Witness ==
    /\ pc = "done" /\ failedPost = 2
    /\ Len(postConditions) = 3 /\ DefaultInPlace
    /\ postConditions[2].kind = "OnErrors" /\ postConditions[3].kind = "Log"
    /\ rets = <<NewError("E1"), WithStack(NewError("E2")), NewError("E3")>>
    /\ logged = <<[cond |-> 3, err |-> NewError("E1")], [cond |-> 3, err |-> NewError("E2")]>>


----------------------------------------------------------------------------
(* Retrier (retrier.go): durations and the delay step of Wait.             *)

\* A float64 rate is given as the ratio num / den.
RateOf(n, d) == [num |-> n, den |-> d]

\* r.Delay *= time.Duration(float64(r.Delay) * r.Rate)
growDelay(delay, rate) ==
    {Wrap(delay * f) : f \in ToDuration(TruncDiv(delay * rate.num, rate.den))}

\* Values time.Duration(1 + jitter*rand.NormFloat64()) takes for jitter # 0.
JitterFactors == {-1, 0, 1, 2}

\* applyJitter(d, jitter): every result the random draw allows.
applyJitter(d, jitter) ==
    IF ~jitter THEN {d}
    ELSE {IF Wrap(d * k) < 0 THEN 0 ELSE Wrap(d * k) : k \in JitterFactors}

\* clampCeil without the cap.
clampCeilNot(d, ceil) == d

\* if r.Delay > r.Ceil { r.Delay = r.Ceil }
clampCeil(d, ceil) == IF d > ceil THEN ceil ELSE d

\* raiseFloor without the raise.
raiseFloorNot(d, floor) == d

\* if r.Delay < r.Floor { r.Delay = r.Floor }
raiseFloor(d, floor) == IF d < floor THEN floor ELSE d

FloorArgs == {0, 1, 3}

RetrierCeilArgs == {2, 5, 10}

RateArgs == {RateOf(1, 1), RateOf(2, 1), RateOf(8, 5)}

\* What f may return to Do: nil, an error, or an error marked by Abort.
Abort(e) == [e EXCEPT !.layers = <<"abort">> \o @]

\* IsAbort of a Do that does not recognise the marker of Abort.
IsAbortNever(e) == FALSE

\* IsAbort of a Do that looks for the marker of Abort through the wrappers.
IsAbortAnywhere(e) == \E k \in 1..Len(e.layers) : e.layers[k] = "abort"

\* _, ok := err.(abortError)
IsAbort(e) == e.layers # <<>> /\ Head(e.layers) = "abort"

FuncErrs == {Nil, NewError("E1"), Abort(NewError("E1"))}

\* The value f returns along with an error: a value with nil, some other value
\* with a plain error, the zero value with an error marked by Abort.
ValueWith(e) ==
    IF e = Nil THEN "dog" ELSE IF IsAbort(e) THEN ZeroValue ELSE "partial"

\* What a call of f may return.
FuncResults == {[v |-> ValueWith(e), e |-> e] : e \in FuncErrs}

\* The same for an f that may also wrap the error Abort made in another error.
WrappingResults ==
    FuncResults \cup {[v |-> ValueWith(e), e |-> e] : e \in {WithStack(Abort(NewError("E1")))}}

----------------------------------------------------------------------------
(* Func.Do (func.go) driving a Retrier.                                    *)

\* No Retry takes part in a call of Do.
RetryIdle ==
    /\ opts = <<>>
    /\ sleepDur = ConstSleep(0)
    /\ preConditions = <<>>
    /\ postConditions = <<>>
    /\ pc = "idle"
    /\ err = Nil
    /\ failedPre = 0
    /\ failedPost = 0
    /\ rets = <<>>
    /\ remaining = 0
    /\ now = 0
    /\ logged = <<>>
    /\ applied = <<>>

retryIdleVars == <<opts, sleepDur, preConditions, postConditions, pc, err, failedPre,
                   failedPost, rets, remaining, now, logged, applied>>

\* The state on entry to f.Do(ctx, r) with r a Retrier made by New(floor, ceil)
\* whose Rate and Jitter fields the caller may have set.
InitDoWith(floors, ceils, rates, jitters) ==
    /\ \E fl \in floors, ce \in ceils, ra \in rates, ji \in jitters :
           retrier = [Delay |-> 0, Floor |-> fl, Ceil |-> ce, Rate |-> ra, Jitter |-> ji]
    /\ doPC = "wait"
    /\ doErr = Nil
    /\ doRet = Nil
    /\ fCalls = 0
    /\ fLast = Nil
    /\ doV = ZeroValue
    /\ fRets = <<>>
    /\ timerReady = FALSE
    /\ waits = 0
    /\ sleeps = <<>>
    /\ ctxErr = Nil
    /\ cancelledAt = NotCancelled
    /\ RetryIdle
    /\ BackoffIdle
    /\ ListenerIdle

InitDo == InitDoWith(FloorArgs, RetrierCeilArgs, RateArgs, BOOLEAN)

\* Retrier.Wait up to its select: the delay grows, is jittered and clamped to
\* Ceil, and the timer of time.After(r.Delay) is started.
WaitBegin ==
    /\ doPC = "wait"
    /\ \E g \in growDelay(retrier.Delay, retrier.Rate) :
         \E j \in applyJitter(g, retrier.Jitter) :
           retrier' = [retrier EXCEPT !.Delay = clampCeil(j, retrier.Ceil)]
    /\ timerReady' = FALSE
    /\ doPC' = "select"
    /\ waits' = waits + 1
    /\ UNCHANGED <<doErr, doRet, fCalls, fLast, doV, fRets, sleeps, ctxErr, cancelledAt>>
    /\ UNCHANGED <<retryIdleVars, backoffVars, listenerVars>>

\* The delay elapses: the timer's channel becomes ready.
TimerFire ==
    /\ doPC = "select" /\ ~timerReady
    /\ timerReady' = TRUE
    /\ UNCHANGED <<retrier, doPC, doErr, doRet, fCalls, fLast, doV, fRets, sleeps, ctxErr,
                   cancelledAt,
                   waits>>
    /\ UNCHANGED <<retryIdleVars, backoffVars, listenerVars>>

\* Whether the select of Wait may take its timer case; select chooses among
\* the ready cases at random.
timerCase(ready, cerr) == ready

\* case <-time.After(r.Delay): the delay is raised to Floor, Wait returns true.
SelectTimer ==
    /\ doPC = "select" /\ timerCase(timerReady, ctxErr)
    /\ sleeps' = Append(sleeps, IF retrier.Delay < 0 THEN 0 ELSE retrier.Delay)
    /\ retrier' = [retrier EXCEPT !.Delay = raiseFloor(@, retrier.Floor)]
    /\ timerReady' = FALSE
    /\ doPC' = "f"
    /\ UNCHANGED <<doErr, doRet, fCalls, fLast, doV, fRets, ctxErr, cancelledAt, waits>>
    /\ UNCHANGED <<retryIdleVars, backoffVars, listenerVars>>

\* SelectDone of a Wait that raises the delay to Floor on this path too.
SelectDoneRaised ==
    /\ doPC = "select" /\ ctxErr # Nil
    /\ doRet' = ctxErr
    /\ retrier' = [retrier EXCEPT !.Delay = raiseFloor(@, retrier.Floor)]
    /\ timerReady' = FALSE
    /\ doPC' = "done"
    /\ UNCHANGED <<doErr, fCalls, fLast, doV, fRets, sleeps, ctxErr, cancelledAt,
                   waits>>
    /\ UNCHANGED <<retryIdleVars, backoffVars, listenerVars>>

\* case <-ctx.Done(): Wait returns false and Do returns v, ctx.Err().
SelectDone ==
    /\ doPC = "select" /\ ctxErr # Nil
    /\ doRet' = ctxErr
    /\ timerReady' = FALSE
    /\ doPC' = "done"
    /\ UNCHANGED <<retrier, doErr, fCalls, fLast, doV, fRets, sleeps, ctxErr, cancelledAt,
                   waits>>
    /\ UNCHANGED <<retryIdleVars, backoffVars, listenerVars>>

\* v, err = f() with f returning r, and the two returns inside the loop of Do;
\* fCalls counts the calls over all the calls of Do made with the Retrier.
fReturns(r) ==
    LET e == r.e
    IN
      /\ doV' = r.v
      /\ fRets' = Append(fRets, r)
      /\ doErr' = e
      /\ fLast' = e
      /\ IF e = Nil THEN doRet' = Nil /\ doPC' = "done"
         ELSE IF IsAbort(e) THEN doRet' = e /\ doPC' = "done"
         ELSE doPC' = "wait" /\ UNCHANGED doRet
      /\ fCalls' = fCalls + 1
      /\ UNCHANGED <<retrier, timerReady, sleeps, ctxErr, cancelledAt, waits>>
      /\ UNCHANGED <<retryIdleVars, backoffVars, listenerVars>>

\* CallF of a Do that goes on to the next Wait after a nil error as well.
CallFIgnoresNil ==
    /\ doPC = "f" /\ fCalls < MaxCalls
    /\ \E r \in FuncResults :
         /\ doV' = r.v
         /\ fRets' = Append(fRets, r)
         /\ doErr' = r.e
         /\ fLast' = r.e
         /\ IF IsAbort(r.e) THEN doRet' = r.e /\ doPC' = "done"
            ELSE doPC' = "wait" /\ UNCHANGED doRet
    /\ fCalls' = fCalls + 1
    /\ UNCHANGED <<retrier, timerReady, sleeps, ctxErr, cancelledAt, waits>>
    /\ UNCHANGED <<retryIdleVars, backoffVars, listenerVars>>

\* Do calls an f that returns nil, an error, or an error Abort made.
CallF ==
    /\ doPC = "f" /\ fCalls < MaxCalls
    /\ \E r \in FuncResults : fReturns(r)

\* The same with an f that may wrap an abort in another error.
CallFWrapping ==
    /\ doPC = "f" /\ fCalls < MaxCalls
    /\ \E r \in WrappingResults : fReturns(r)

\* The owner of ctx cancels it, at any moment of the call of Do.
CancelDo ==
    /\ ctxErr = Nil /\ doPC \in {"wait", "select", "f"}
    /\ ctxErr' = Canceled
    /\ cancelledAt' = [at |-> doPC, remaining |-> 0, sleepNo |-> Len(sleeps),
                       fCalls |-> fCalls]
    /\ UNCHANGED <<retrier, doPC, doErr, doRet, fCalls, fLast, doV, fRets, timerReady,
                   sleeps, waits>>
    /\ UNCHANGED <<retryIdleVars, backoffVars, listenerVars>>

\* Reset that leaves the delay as it is.
resetDelayKept(d) == d

\* r.Delay = 0
resetDelay(d) == 0

\* Do has returned; the owner of the Retrier calls r.Reset() and then Do again,
\* with the same context.
Reset ==
    /\ doPC = "done"
    /\ retrier' = [retrier EXCEPT !.Delay = resetDelay(@)]
    /\ waits' = 0
    /\ doPC' = "wait"
    /\ doErr' = Nil
    /\ doRet' = Nil
    /\ doV' = ZeroValue
    /\ UNCHANGED <<fCalls, fLast, fRets, timerReady, sleeps, ctxErr, cancelledAt>>
    /\ UNCHANGED <<retryIdleVars, backoffVars, listenerVars>>

NextDo ==
    \/ WaitBegin
    \/ TimerFire
    \/ SelectTimer
    \/ SelectDone
    \/ CallF
    \/ CancelDo
    \/ Reset

SpecDo == InitDo /\ [][NextDo]_vars

\* Do with an f that may wrap an abort in another error, on New(1, 2).
InitWrapping == InitDoWith({1}, {2}, {RateOf(1, 1)}, {FALSE})

NextWrapping ==
    \/ WaitBegin
    \/ TimerFire
    \/ SelectTimer
    \/ SelectDone
    \/ CallFWrapping
    \/ CancelDo
    \/ Reset

SpecWrapping == InitWrapping /\ [][NextWrapping]_vars

----------------------------------------------------------------------------
(* Properties of Func.Do.                                                  *)

\* C6: when the context is cancelled while Do is blocked in the select of
\* Wait between two calls of f, f is not called again, whether or not the
\* timer is ready too, and the error Do returns is ctx.Err().
C6_CancelInWaitEndsDo ==
    (cancelledAt.at = "select" /\ cancelledAt.fCalls >= 1) =>
        /\ fCalls = cancelledAt.fCalls
        /\ doPC # "f"
        /\ doPC = "done" => doRet = ctxErr

----------------------------------------------------------------------------
(* Properties of Retrier.Wait.                                             *)

\* The calls of Wait since New or the latest Reset that have returned, the
\* context not being cancelled.
returned == IF doPC = "select" THEN waits - 1 ELSE waits

\* The time the k-th of them took.
Waited(k) == sleeps[Len(sleeps) - returned + k]

\* The delay a Retrier doubling from floor up to ceil would wait at its k-th
\* Wait: nothing at the first, then floor, 2 * floor, 4 * floor, ..., ceil.
Doubling(k, floor, ceil) ==
    IF k = 1 THEN 0
    ELSE IF floor * 2 ^ (k - 1) > ceil THEN ceil ELSE floor * 2 ^ (k - 1)

\* The Retrier of TestScalesExponentially: New(1s, 10s) with Rate = 2.
ScalesExponentiallySetup ==
    /\ retrier.Floor = 1 /\ retrier.Ceil = 10
    /\ retrier.Rate = RateOf(2, 1) /\ ~retrier.Jitter
    /\ ctxErr = Nil

\* C17: with Floor = 1s, Ceil = 10s, Rate = 2 and no jitter, the first Wait
\* returns at once and the following ones wait 2s, 4s, 8s, 10s, 10s, ..., so
\* that the first three Waits take 6s in all.
C17_DelaysDouble ==
    ScalesExponentiallySetup =>
        /\ \A k \in 1..returned : Waited(k) = Doubling(k, 1, 10)
        /\ returned = 3 => Waited(1) + Waited(2) + Waited(3) = 6

\* C18: after New and after Reset the delay is zero, whatever happened before
\* and whatever Floor and Ceil are; the first Wait that follows sets a timer
\* of zero duration and, when it returns true, has waited no time; with the
\* context not cancelled it does not return false.
C18_FirstWaitImmediate ==
    /\ waits = 0 => retrier.Delay = 0
    /\ (waits = 1 /\ doPC = "select") => retrier.Delay = 0
    /\ (waits = 1 /\ doPC = "f") => sleeps[Len(sleeps)] = 0
    /\ (waits = 1 /\ doPC = "done" /\ ctxErr = Nil) => doRet # Canceled

C18_Witness ==
    /\ waits = 1 /\ doPC = "f" /\ ctxErr = Nil
    /\ retrier.Floor = 3 /\ retrier.Ceil = 5
    /\ sleeps = <<0, 5, 0>>

\* C19: a Wait called with a context that is already cancelled never returns
\* true: once the context has been cancelled outside the select of Wait, no
\* further Wait lets an attempt through, the first Wait after New or Reset,
\* whose timer is ready at once, included.
C19_CancelledWaitNeverTrue ==
    cancelledAt.at \in {"wait", "f"} => Len(sleeps) = cancelledAt.sleepNo

\* C20: whenever Floor <= Ceil, after every Wait that returned true the delay
\* lies between Floor and Ceil, for every Rate >= 1 and with or without
\* jitter.
C20_DelayWithinFloorAndCeil ==
    (doPC = "f" /\ retrier.Floor <= retrier.Ceil /\ retrier.Rate.num >= retrier.Rate.den) =>
        /\ retrier.Floor <= retrier.Delay
        /\ retrier.Delay <= retrier.Ceil

\* Jitter brought the third delay down to nothing and Wait raised it to Floor.
C20_Witness ==
    /\ doPC = "f" /\ waits = 3
    /\ retrier.Jitter /\ retrier.Floor = 3 /\ retrier.Ceil = 5
    /\ sleeps = <<0, 5, 0>>
    /\ retrier.Delay = 3

\* C21: with Jitter set, Floor and Ceil are respected by the wait itself:
\* every Wait but the immediate first one sleeps no less than Floor and no
\* more than Ceil.
C21_JitteredSleepWithinFloorAndCeil ==
    (retrier.Jitter /\ retrier.Floor <= retrier.Ceil /\ ctxErr = Nil) =>
        \A k \in 2..returned :
            /\ retrier.Floor <= Waited(k)
            /\ Waited(k) <= retrier.Ceil

----------------------------------------------------------------------------
(* Properties of Func.Do: values and Abort.                                *)

\* The latest Wait has not returned true: it is in its select, or it returned
\* false and Do returned ctx.Err().
pending ==
    IF doPC = "select" \/ (doPC = "done" /\ ctxErr # Nil /\ doRet = ctxErr) THEN 1 ELSE 0

\* The call of Do is the first made with the Retrier: every Wait so far
\* belongs to it.
FirstDo == Len(sleeps) = waits - pending

\* The latest result of f.
lastResult == fRets[Len(fRets)]

\* The error is one that Abort made.
Aborted(e) == e \in {[base |-> x, layers |-> <<"abort">>] : x \in BaseErrs}

\* C25: f is called exactly once after each Wait that returns true; within
\* a call of Do no call of f follows one that returned nil; Do returns nil
\* exactly after such a call, with the value that call produced.
C25_DoReturnsFirstSuccess ==
    /\ Len(sleeps) = fCalls + (IF doPC = "f" THEN 1 ELSE 0)
    /\ Len(fRets) = fCalls
    /\ FirstDo =>
           /\ \A k \in 1..(Len(fRets) - 1) : fRets[k].e # Nil
           /\ (fRets # <<>> /\ lastResult.e = Nil) =>
                  /\ doPC = "done"
                  /\ doRet = Nil
                  /\ doV = lastResult.v
           /\ (doPC = "done" /\ doRet = Nil) => (fRets # <<>> /\ lastResult.e = Nil)

C25_Witness ==
    /\ FirstDo /\ doPC = "done" /\ doRet = Nil /\ doV = "dog"
    /\ Len(fRets) = 3
    /\ fRets[1].v = "partial" /\ fRets[2].e = NewError("E1")
    /\ Len(sleeps) = 3

\* C26: when f returns an error made by Abort, Do returns right after that
\* call: no further Wait is begun and f is not called again, whether or not
\* the context is cancelled.
C26_AbortEndsDo ==
    (FirstDo /\ fRets # <<>> /\ Aborted(lastResult.e)) =>
        /\ doPC = "done"
        /\ waits = fCalls
        /\ Len(sleeps) = fCalls
        /\ \A k \in 1..(Len(fRets) - 1) : ~Aborted(fRets[k].e)

C26_Witness ==
    /\ FirstDo /\ doPC = "done"
    /\ Len(fRets) = 2 /\ Aborted(lastResult.e)
    /\ ctxErr # Nil /\ cancelledAt.at = "f"

\* abortError{err}.error: the error Abort was given.
Underlying(e) == [e EXCEPT !.layers = Tail(@)]

\* C27: the error Do returns after f returned Abort(e) is the underlying
\* error e, not the abort wrapper around it.
C27_DoReturnsUnderlyingError ==
    (FirstDo /\ doPC = "done" /\ fRets # <<>> /\ Aborted(lastResult.e)) =>
        doRet = Underlying(lastResult.e)

----------------------------------------------------------------------------
(* Backoff (backoff.go): a loop calling b.Wait(ctx) until it fails.        *)

BackoffFloorArgs == {1, 2, 3}

BackoffCeilArgs == {2, 4}

\* errors.Wrapf(e, ...): like WithStack, context added around e.
Wrapf(e) == WithStack(e)

\* floorDelay without the raise to Floor.
floorDelayNot(bk) == bk

\* if b.delay < b.Floor { b.delay = b.Floor }
floorDelay(bk) == IF bk.delay < bk.Floor THEN [bk EXCEPT !.delay = bk.Floor] ELSE bk

\* b.backoff() growing the delay even when Floor >= Ceil.
backoffAlways(bk) ==
    LET grown == Wrap(bk.delay * growth)
    IN  [bk EXCEPT !.delay = IF grown > bk.Ceil THEN bk.Ceil ELSE grown]

\* b.backoff(): the delay doubles up to Ceil, unless Floor >= Ceil.
backoff(bk) ==
    IF bk.Floor >= bk.Ceil THEN bk
    ELSE LET grown == Wrap(bk.delay * growth)
         IN  [bk EXCEPT !.delay = IF grown > bk.Ceil THEN bk.Ceil ELSE grown]

\* No Retry, Retrier or Listener takes part in a Backoff loop.
InitBackoff ==
    /\ \E fl \in BackoffFloorArgs, ce \in BackoffCeilArgs :
           boff = [Floor |-> fl, Ceil |-> ce, delay |-> 0]
    /\ bPC = "loop"
    /\ bErr = Nil
    /\ sleeps = <<>>
    /\ ctxErr = Nil
    /\ cancelledAt = NotCancelled
    /\ RetryIdle
    /\ DoIdle
    /\ ListenerIdle

backoffAlone == <<retryIdleVars, retrier, doPC, doErr, doRet, fCalls, fLast, doV, fRets,
                  listenerVars>>

\* b.Wait(ctx) up to its select: the delay is raised to Floor and the timer of
\* time.After(b.delay) is started.
BackoffWaitBegin ==
    /\ bPC = "loop" /\ waits < MaxCalls
    /\ boff' = floorDelay(boff)
    /\ timerReady' = FALSE
    /\ waits' = waits + 1
    /\ bPC' = "select"
    /\ UNCHANGED <<bErr, sleeps, ctxErr, cancelledAt>>
    /\ UNCHANGED backoffAlone

\* The delay elapses: the timer's channel becomes ready. A goroutine blocked
\* in the select is woken for the timer case.
BackoffTimerFire ==
    /\ bPC \in {"select", "blocked"} /\ ~timerReady
    /\ timerReady' = TRUE
    /\ bPC' = IF bPC = "blocked" THEN "timer" ELSE bPC
    /\ UNCHANGED <<boff, bErr, waits, sleeps, ctxErr, cancelledAt>>
    /\ UNCHANGED backoffAlone

\* The select is evaluated: it takes one of the ready cases, at random when
\* both are ready, and blocks when none is.
BackoffSelect ==
    /\ bPC = "select"
    /\ \/ timerReady /\ bPC' = "timer"
       \/ ctxErr # Nil /\ bPC' = "ctxDone"
       \/ ~timerReady /\ ctxErr = Nil /\ bPC' = "blocked"
    /\ UNCHANGED <<boff, bErr, waits, timerReady, sleeps, ctxErr, cancelledAt>>
    /\ UNCHANGED backoffAlone

\* case <-time.After(b.delay): b.backoff(); return nil
BackoffSelectTimer ==
    /\ bPC = "timer"
    /\ sleeps' = Append(sleeps, boff.delay)
    /\ boff' = backoff(boff)
    /\ bErr' = Nil
    /\ timerReady' = FALSE
    /\ bPC' = "loop"
    /\ UNCHANGED <<waits, ctxErr, cancelledAt>>
    /\ UNCHANGED backoffAlone

\* BackoffSelectDone with the growth step applied on the error path too.
BackoffSelectDoneGrown ==
    /\ bPC = "ctxDone"
    /\ bErr' = Wrapf(ctxErr)
    /\ boff' = backoff(boff)
    /\ timerReady' = FALSE
    /\ bPC' = "failed"
    /\ UNCHANGED <<waits, sleeps, ctxErr, cancelledAt>>
    /\ UNCHANGED backoffAlone

\* case <-ctx.Done(): return errors.Wrapf(ctx.Err(), ...); the loop ends.
BackoffSelectDone ==
    /\ bPC = "ctxDone"
    /\ bErr' = Wrapf(ctxErr)
    /\ timerReady' = FALSE
    /\ bPC' = "failed"
    /\ UNCHANGED <<boff, waits, sleeps, ctxErr, cancelledAt>>
    /\ UNCHANGED backoffAlone

\* The owner of ctx cancels it (or its deadline passes); a goroutine blocked
\* in the select is woken for the ctx.Done() case.
CancelBackoff ==
    /\ ctxErr = Nil /\ bPC \in {"loop", "select", "blocked", "timer"}
    /\ ctxErr' = Canceled
    /\ cancelledAt' = [at |-> bPC, remaining |-> IF timerReady THEN 0 ELSE boff.delay,
                       sleepNo |-> Len(sleeps), fCalls |-> 0]
    /\ bPC' = IF bPC = "blocked" THEN "ctxDone" ELSE bPC
    /\ UNCHANGED <<boff, bErr, waits, timerReady, sleeps>>
    /\ UNCHANGED backoffAlone

NextBackoff ==
    \/ BackoffWaitBegin
    \/ BackoffTimerFire
    \/ BackoffSelect
    \/ BackoffSelectTimer
    \/ BackoffSelectDone
    \/ CancelBackoff

SpecBackoff == InitBackoff /\ [][NextBackoff]_vars

----------------------------------------------------------------------------
(* Properties of Backoff.Wait.                                             *)

\* C23: a Backoff whose Floor is greater than or equal to its Ceil does not
\* back off: every Wait that is not cut short by the context sleeps exactly
\* Floor, and once the first Wait has begun the delay is Floor and stays so.
C23_FloorAtOrAboveCeilSleepsFloor ==
    boff.Floor >= boff.Ceil =>
        /\ \A k \in 1..Len(sleeps) : sleeps[k] = boff.Floor
        /\ waits >= 1 => boff.delay = boff.Floor

C23_Witness ==
    /\ boff.Floor = 3 /\ boff.Ceil = 2
    /\ bPC = "loop" /\ ctxErr = Nil
    /\ sleeps = <<3, 3, 3>>
    /\ boff.delay = 3

\* The delay of the k-th Wait of a Backoff: Floor doubled k - 1 times and
\* capped at Ceil, or Floor throughout when Floor >= Ceil.
BackoffValue(k) ==
    IF boff.Floor >= boff.Ceil THEN boff.Floor
    ELSE IF boff.Floor * growth ^ (k - 1) > boff.Ceil THEN boff.Ceil
    ELSE boff.Floor * growth ^ (k - 1)

\* C24: a Wait blocked on a delay that has not elapsed when the context is
\* cancelled returns early, no sleep being completed after the cancellation;
\* a Wait that returns on ctx.Done() returns a non-nil error whose cause is
\* ctx.Err() and applies no growth step: the delay is the one a successful
\* wait of that iteration would have slept.
C24_CancelledWaitFailsWithoutGrowth ==
    /\ cancelledAt.at = "blocked" =>
           /\ bPC \in {"ctxDone", "failed"}
           /\ Len(sleeps) = cancelledAt.sleepNo
    /\ bPC = "failed" =>
           /\ bErr # Nil
           /\ Cause(bErr) = ctxErr /\ ctxErr = Canceled
           /\ Len(sleeps) = waits - 1
           /\ boff.delay = BackoffValue(waits)

C24_Witness ==
    /\ cancelledAt.at = "blocked" /\ cancelledAt.remaining = 2
    /\ bPC = "failed"
    /\ boff.Floor = 1 /\ boff.Ceil = 4
    /\ sleeps = <<1>> /\ boff.delay = 2
    /\ bErr = WithStack(Canceled)

----------------------------------------------------------------------------
(* Listener (listener.go): successive calls of l.Accept().  The Listener's  *)
(* durations are counted in milliseconds; they stay far below the range of *)
(* time.Duration, so no arithmetic on them wraps.                          *)

initialListenerDelay == 5

maxListenerDelay == 1000

\* What the wrapped listener's Accept may return: a connection (nil error), an
\* error that is no net.Error, and a net.Error that is temporary or not.
GeneralError == NewError("general error")

TempNetError == NewError("temporary net error")

NetError == NewError("net error")

AcceptErrs == {Nil, GeneralError, TempNetError, NetError}

\* ne, ok := err.(net.Error)
IsNetError(e) == e \in {TempNetError, NetError}

\* Temporary of a net.Error that always reports true.
TemporaryAlways(e) == TRUE

\* ne.Temporary()
Temporary(e) == e = TempNetError

\* The new retryDelay without the doubling.
nextRetryDelayFlat(d) == initialListenerDelay

\* The new retryDelay on a temporary error: the initial delay, then doubled up
\* to the maximum.
nextRetryDelay(d) ==
    IF d = 0 THEN initialListenerDelay
    ELSE IF d * 2 > maxListenerDelay THEN maxListenerDelay ELSE d * 2

\* No Retry, Retrier or Backoff takes part in the life of a Listener.
InitListener ==
    /\ lPC = "ready"
    /\ lCall = 0
    /\ retryDelay = 0
    /\ accepts = <<>>
    /\ lRet = Nil
    /\ tmpLogged = <<>>
    /\ sleeps = <<>>
    /\ ctxErr = Nil
    /\ cancelledAt = NotCancelled
    /\ RetryIdle
    /\ DoIdle
    /\ BackoffIdle

listenerAlone == <<retryIdleVars, doVars, backoffVars, ctxErr, cancelledAt>>

\* A call of l.Accept() that goes on with the delay of the call before it.
ListenerAcceptKeepsDelay ==
    /\ lPC \in {"ready", "returned"} /\ lCall < MaxCalls
    /\ lCall' = lCall + 1
    /\ lPC' = "accept"
    /\ UNCHANGED <<retryDelay, accepts, lRet, tmpLogged, sleeps>>
    /\ UNCHANGED listenerAlone

\* l.Accept() is called: var retryDelay time.Duration
ListenerAccept ==
    /\ lPC \in {"ready", "returned"} /\ lCall < MaxCalls
    /\ lCall' = lCall + 1
    /\ retryDelay' = 0
    /\ lPC' = "accept"
    /\ UNCHANGED <<accepts, lRet, tmpLogged, sleeps>>
    /\ UNCHANGED listenerAlone

\* c, err := l.Listener.Accept() and what follows it in the loop body: on a
\* temporary net.Error the delay is set, the error is logged and time.Sleep
\* begins; otherwise Accept returns.
AcceptOnce ==
    /\ lPC = "accept" /\ Len(accepts) < MaxAccepts
    /\ \E e \in AcceptErrs :
         /\ accepts' = Append(accepts, [call |-> lCall, err |-> e])
         /\ IF e # Nil /\ IsNetError(e) /\ Temporary(e)
            THEN /\ retryDelay' = nextRetryDelay(retryDelay)
                 /\ tmpLogged' = Append(tmpLogged, e)
                 /\ sleeps' = Append(sleeps, nextRetryDelay(retryDelay))
                 /\ lPC' = "sleep"
                 /\ UNCHANGED lRet
            ELSE /\ lRet' = e
                 /\ lPC' = "returned"
                 /\ UNCHANGED <<retryDelay, tmpLogged, sleeps>>
    /\ UNCHANGED lCall
    /\ UNCHANGED listenerAlone

\* ListenerWake of an Accept that gives up once the delay has reached the
\* maximum.
ListenerWakeGivesUp ==
    /\ lPC = "sleep"
    /\ IF retryDelay >= maxListenerDelay
       THEN lPC' = "returned" /\ lRet' = accepts[Len(accepts)].err
       ELSE lPC' = "accept" /\ UNCHANGED lRet
    /\ UNCHANGED <<lCall, retryDelay, accepts, tmpLogged, sleeps>>
    /\ UNCHANGED listenerAlone

\* time.Sleep(retryDelay) returns; continue.
ListenerWake ==
    /\ lPC = "sleep"
    /\ lPC' = "accept"
    /\ UNCHANGED <<lCall, retryDelay, accepts, lRet, tmpLogged, sleeps>>
    /\ UNCHANGED listenerAlone

NextListener ==
    \/ ListenerAccept
    \/ AcceptOnce
    \/ ListenerWake

SpecListener == InitListener /\ [][NextListener]_vars

----------------------------------------------------------------------------
(* Properties of the Listener                                              *)

\* The i-th call of the wrapped Accept returned a temporary net.Error.
TemporaryAt(i) == accepts[i].err = TempNetError

\* The i-th call of the wrapped Accept returned an error that is no net.Error,
\* or a net.Error that is not temporary.
PermanentAt(i) == accepts[i].err \in {GeneralError, NetError}

\* How many of the first i calls of the wrapped Accept returned a temporary
\* error: the i-th call being one of them, the index of its sleep.
TempsUpTo(i) == Cardinality({j \in 1..i : TemporaryAt(j)})

\* The calls of the wrapped Accept made by the n-th call of Listener.Accept.
CallsOf(n) == {j \in 1..Len(accepts) : accepts[j].call = n}

\* The position of the i-th call of the wrapped Accept within its call of
\* Listener.Accept.
RankInCall(i) == Cardinality({j \in 1..i : accepts[j].call = accepts[i].call})

RECURSIVE TwoToThe(_)
TwoToThe(n) == IF n = 0 THEN 1 ELSE 2 * TwoToThe(n - 1)

\* min(5ms * 2^(k-1), 1s)
ListenerDelay(k) ==
    IF initialListenerDelay * TwoToThe(k - 1) > maxListenerDelay
    THEN maxListenerDelay
    ELSE initialListenerDelay * TwoToThe(k - 1)

\* C28: an error of the wrapped Accept that is no net.Error, or a net.Error
\* that is not temporary, is returned by Listener.Accept as it is and at once:
\* it is the last call of the wrapped Accept of its call of Listener.Accept
\* (the only one when it is the first), and it is neither slept on nor given
\* to LogTmpErr, so that sleeps and LogTmpErr calls number the temporary
\* errors.
C28_PermanentErrorReturnedAtOnce ==
    /\ Len(sleeps) = TempsUpTo(Len(accepts))
    /\ Len(tmpLogged) = TempsUpTo(Len(accepts))
    /\ \A i \in 1..Len(accepts) :
         PermanentAt(i) =>
            /\ \A j \in CallsOf(accepts[i].call) : j <= i
            /\ RankInCall(i) = 1 => CallsOf(accepts[i].call) = {i}
            /\ accepts[i].call = lCall => lPC = "returned" /\ lRet = accepts[i].err

C28_Witness ==
    /\ lPC = "returned"
    /\ lRet = NetError
    /\ accepts = <<[call |-> 1, err |-> NetError]>>
    /\ sleeps = <<>>
    /\ tmpLogged = <<>>

\* C29: in the first call of Listener.Accept the k-th consecutive temporary
\* error sleeps min(5ms * 2^(k-1), 1s); when the wrapped Accept returns a
\* temporary error, a temporary error and a connection, Listener.Accept makes
\* exactly these 3 calls, sleeps 5ms then 10ms and returns a nil error with no
\* further sleep.
C29_TemporaryErrorsBackOffThenSucceed ==
    /\ \A i \in CallsOf(1) : TemporaryAt(i) => sleeps[i] = ListenerDelay(i)
    /\ ( /\ Len(accepts) >= 3
         /\ TemporaryAt(1) /\ TemporaryAt(2) /\ accepts[3].err = Nil )
       => /\ CallsOf(1) = {1, 2, 3}
          /\ sleeps[1] = 5 /\ sleeps[2] = 10
          /\ lCall = 1 => lPC = "returned" /\ lRet = Nil /\ Len(sleeps) = 2

C29_Witness ==
    /\ lPC = "returned"
    /\ lRet = Nil
    /\ lCall = 1
    /\ Len(accepts) = 3
    /\ TemporaryAt(1) /\ TemporaryAt(2) /\ accepts[3].err = Nil
    /\ sleeps = <<5, 10>>

\* C30 (as stated): the delay goes on over successive calls of
\* Listener.Accept: the k-th temporary error the Listener has seen, in whatever
\* call, sleeps the k-th delay of the sequence.
C30_DelayStateOutlivesAccept ==
    \A i \in 1..Len(accepts) :
        TemporaryAt(i) => sleeps[TempsUpTo(i)] = ListenerDelay(TempsUpTo(i))

\* C30 (amended): the delay starts again at every call of Listener.Accept: the
\* k-th temporary error of one call sleeps the k-th delay of the sequence,
\* whatever the calls before it saw.
C30_DelayStateResetAtEachAccept ==
    \A i \in 1..Len(accepts) :
        TemporaryAt(i) => sleeps[TempsUpTo(i)] = ListenerDelay(RankInCall(i))

C30_Witness ==
    /\ lCall = 2
    /\ Len(accepts) = 4
    /\ TemporaryAt(1) /\ TemporaryAt(2) /\ accepts[3].err = Nil
    /\ TemporaryAt(4) /\ accepts[4].call = 2
    /\ sleeps = <<5, 10, 5>>

----------------------------------------------------------------------------
(* Properties of the sleep of a Retry: Backoff and Jitter                  *)

\* The sleep given to New.
NewSleep == applied[1].opt.n

\* The chain of builder calls is complete and is exactly the given operations.
ChainIs(ops) ==
    /\ opts = <<>>
    /\ Len(applied) = Len(ops) + 1
    /\ \A k \in 1..Len(ops) : applied[k + 1].opt.op = ops[k]

\* A delay after one step of exponential growth up to the ceiling c.
Doubled(d, c) ==
    IF d >= c THEN d ELSE IF Wrap(d * 2) > c THEN c ELSE Wrap(d * 2)

\* The k-th delay of the growth that starts at d.
RECURSIVE BackedOff(_, _, _)
BackedOff(d, c, k) == IF k = 1 THEN d ELSE BackedOff(Doubled(d, c), c, k - 1)

\* d * (1 + r) is within the range of time.Duration, r being rat tenths.
JitterInRange(d, rat) == d * (RatDen + rat) <= MaxDuration * RatDen

\* x lies within [d * (1 - r), d * (1 + r)].
WithinRatio(x, d, rat) ==
    /\ x * RatDen >= d * (RatDen - rat)
    /\ x * RatDen <= d * (RatDen + rat)

\* x is a whole duration of [trunc(d * (1 - r)), trunc(d * (1 + r))): less than
\* one unit below d * (1 - r), and below d * (1 + r).
WithinTruncatedRatio(x, d, rat) ==
    /\ x * RatDen > d * (RatDen - rat) - RatDen
    /\ x * RatDen < d * (RatDen + rat)

\* C31: on New(s).Backoff(c), whatever s, the k-th sleep is s doubled k - 1
\* times and capped at c, so that no sleep exceeds c.
C31_BackoffSleepsAtMostCeil ==
    ChainIs(<<"Backoff">>) =>
        \A k \in 1..Len(sleeps) :
            /\ sleeps[k] <= applied[2].opt.n
            /\ sleeps[k] = IF NewSleep * TwoToThe(k - 1) > applied[2].opt.n
                           THEN applied[2].opt.n
                           ELSE NewSleep * TwoToThe(k - 1)

\* C32: New(0).Backoff(c) is rejected when Backoff is called: the call panics
\* and the action is never invoked.
C32_ZeroDelayBackoffRejected ==
    (NewSleep = 0 /\ Len(applied) >= 2 /\ applied[2].opt.op = "Backoff") =>
        pc = "panic" /\ calls = 0

\* C33 (as stated): on New(d).Jitter(r), d > 0 and r in (0, 1), every sleep
\* lies within [d * (1 - r), d * (1 + r)] and is not negative.
C33_JitteredSleepWithinRatio ==
    (ChainIs(<<"Jitter">>) /\ pc # "panic" /\ NewSleep > 0) =>
        \A k \in 1..Len(sleeps) :
            sleeps[k] >= 0 /\ WithinRatio(sleeps[k], NewSleep, applied[2].opt.n)

\* C33 (amended): on New(d).Jitter(r), d > 0, r in (0, 1) and d * (1 + r)
\* within the range of time.Duration, no call of the sleep closure panics and
\* every sleep is a whole duration of [trunc(d * (1 - r)), trunc(d * (1 + r))):
\* not negative, less than one unit below d * (1 - r), and below d * (1 + r).
C33_JitteredSleepWithinTruncatedRatio ==
    ( /\ ChainIs(<<"Jitter">>)
      /\ applied[2].opt.n > 0 /\ applied[2].opt.n < RatDen
      /\ NewSleep > 0 /\ JitterInRange(NewSleep, applied[2].opt.n) )
    => /\ pc # "panic"
       /\ \A k \in 1..Len(sleeps) :
            /\ sleeps[k] >= 0
            /\ WithinTruncatedRatio(sleeps[k], NewSleep, applied[2].opt.n)

C33_Witness ==
    /\ ChainIs(<<"Jitter">>)
    /\ NewSleep = 1 /\ applied[2].opt.n = 5
    /\ sleeps = <<0, 0>>
    /\ pc = "sleep"

\* C40: New(s).Jitter(r).Backoff(c) draws the jitter once, when Backoff is
\* called, for the starting delay: its closure holds no Jitter and its sleeps
\* grow from that delay without jitter; New(s).Backoff(c).Jitter(r) draws a
\* jitter around each delay of the growth from s.
C40_JitterAndBackoffDoNotCommute ==
    /\ (ChainIs(<<"Jitter", "Backoff">>) /\ pc # "panic") =>
          /\ sleepDur.kind = "backoff" /\ sleepDur.jitter = <<>>
          /\ LET start == IF sleeps = <<>> THEN sleepDur.delay ELSE sleeps[1]
             IN  (NewSleep > 0 /\ JitterInRange(NewSleep, applied[2].opt.n)) =>
                     WithinTruncatedRatio(start, NewSleep, applied[2].opt.n)
          /\ \A k \in 1..Len(sleeps) :
                 sleeps[k] = BackedOff(sleeps[1], applied[3].opt.n, k)
    /\ (ChainIs(<<"Backoff", "Jitter">>) /\ pc # "panic") =>
          /\ sleepDur.kind = "backoff" /\ sleepDur.jitter = <<applied[3].opt.n>>
          /\ \A k \in 1..Len(sleeps) :
                 LET b == BackedOff(NewSleep, applied[2].opt.n, k)
                 IN  (b > 0 /\ JitterInRange(b, applied[3].opt.n)) =>
                         WithinTruncatedRatio(sleeps[k], b, applied[3].opt.n)

\* New(2).Backoff(4).Jitter(0.5) sleeps 2 and 2: no growth from the first
\* sleep, which the other order cannot do.
C40_Witness ==
    /\ ChainIs(<<"Backoff", "Jitter">>)
    /\ NewSleep = 2 /\ applied[2].opt.n = 4 /\ applied[3].opt.n = 5
    /\ sleeps = <<2, 2>>
    /\ sleeps[2] # BackedOff(sleeps[1], 4, 2)

----------------------------------------------------------------------------
(* Properties of Backoff.Wait: growth                                      *)

\* C34: for a Backoff with 0 < Floor < Ceil whose context is not cancelled,
\* the k-th Wait sleeps min(Floor * 2^(k-1), Ceil): the first sleeps Floor, the
\* sleeps never decrease, and after every Wait the delay is within
\* [Floor, Ceil].
C34_BackoffDoublesFromFloorToCeil ==
    (0 < boff.Floor /\ boff.Floor < boff.Ceil /\ ctxErr = Nil) =>
        /\ \A k \in 1..Len(sleeps) :
               sleeps[k] = IF boff.Floor * TwoToThe(k - 1) > boff.Ceil
                           THEN boff.Ceil
                           ELSE boff.Floor * TwoToThe(k - 1)
        /\ \A k \in 1..(Len(sleeps) - 1) : sleeps[k] <= sleeps[k + 1]
        /\ (bPC = "loop" /\ waits >= 1) =>
               boff.Floor <= boff.delay /\ boff.delay <= boff.Ceil

C34_Witness ==
    /\ boff.Floor = 1 /\ boff.Ceil = 4
    /\ ctxErr = Nil /\ bPC = "loop"
    /\ sleeps = <<1, 2, 4>>
    /\ boff.delay = 4

----------------------------------------------------------------------------
(* Properties of Retry.Run: the sleep after the last invocation            *)

\* C35: on New(s).Attempts(n), n >= 1, with an action that always fails, Run
\* sleeps after every invocation, the n-th included: when it returns it has
\* made n invocations and n sleeps, each of which ran in full, so that n * s
\* has elapsed.
C35_SleepsAfterLastInvocation ==
    (AttemptsOnly /\ AllFailed) =>
        /\ pc = "pre" => Len(sleeps) = calls
        /\ pc = "done" =>
               /\ calls = preConditions[1].max
               /\ Len(sleeps) = preConditions[1].max
               /\ remaining = 0
               /\ now = SumSeq(sleeps)
               /\ now = preConditions[1].max * NewSleep

C35_Witness ==
    /\ AttemptsOnly /\ AllFailed
    /\ preConditions[1].max = 2
    /\ pc = "done"
    /\ calls = 2
    /\ Len(sleeps) = 2
    /\ now = 2 * NewSleep

----------------------------------------------------------------------------
(* Properties of Retry.Run called again                                    *)

\* C36: on New(s).Attempts(n), n >= 1, the budget is spent over all the calls
\* of Run and never restored: a Run that follows k invocations makes at most
\* n - k more, and one that follows n invocations makes none and returns the
\* error of the exhausted budget.
C36_AttemptsBudgetSpansRuns ==
    AttemptsOnly =>
        /\ calls <= preConditions[1].max
        /\ \A m \in reruns :
               /\ calls - applied[m].opt.n <= preConditions[1].max - applied[m].opt.n
               /\ (applied[m].opt.n = preConditions[1].max /\ pc = "done") =>
                      /\ calls = applied[m].opt.n
                      /\ err = ErrNoAttempts

C36_Witness ==
    /\ AttemptsOnly /\ preConditions[1].max = 2
    /\ reruns # {}
    /\ \A m \in reruns : applied[m].opt.n = 2
    /\ AllFailed
    /\ pc = "done" /\ calls = 2 /\ err = ErrNoAttempts

\* A Run that succeeded at the first of 2 attempts, followed by a Run that
\* makes the one invocation left.
C36_WitnessPartial ==
    /\ AttemptsOnly /\ preConditions[1].max = 2
    /\ \E m \in reruns : applied[m].opt.n = 1
    /\ rets[1] = Nil
    /\ pc = "done" /\ calls = 2

----------------------------------------------------------------------------
(* Properties of Retrier.Wait on a cancelled context                       *)

\* The latest Wait returned false: Do returned the error of the context.
WaitReturnedFalse == doPC = "done" /\ ctxErr # Nil /\ doRet = ctxErr

\* The Delay on entry to the latest Wait: zero at the first Wait after New or
\* Reset, else what the Wait before slept, raised to Floor.
DelayAtEntry ==
    IF waits <= 1 THEN 0
    ELSE IF sleeps[Len(sleeps)] < retrier.Floor THEN retrier.Floor
    ELSE sleeps[Len(sleeps)]

\* The values one step takes the delay d to, without jitter: d times the
\* duration of d * Rate, capped at Ceil and not raised to Floor.
Advanced(d) ==
    {IF Wrap(d * f) > retrier.Ceil THEN retrier.Ceil ELSE Wrap(d * f) :
        f \in ToDuration(TruncDiv(d * retrier.Rate.num, retrier.Rate.den))}

\* C37: when Wait returns false on a cancelled context the Delay of the
\* Retrier is the value the step of this Wait gave it: grown (and jittered),
\* capped at Ceil, and not raised to Floor.
C37_CancelledWaitAdvancesDelay ==
    WaitReturnedFalse =>
        /\ retrier.Delay <= retrier.Ceil
        /\ ~retrier.Jitter => retrier.Delay \in Advanced(DelayAtEntry)

\* New(3, 5) with Rate 2: the second Wait, cancelled, leaves the Delay at 5,
\* having entered with 3.
C37_Witness ==
    /\ WaitReturnedFalse
    /\ ~retrier.Jitter /\ retrier.Floor = 3 /\ retrier.Ceil = 5
    /\ retrier.Rate = RateOf(2, 1)
    /\ waits = 2 /\ DelayAtEntry = 3
    /\ retrier.Delay = 5

\* New(3, 2): the cancelled Wait leaves the Delay at 2, below Floor.
C37_WitnessBelowFloor ==
    /\ WaitReturnedFalse
    /\ ~retrier.Jitter /\ retrier.Floor = 3 /\ retrier.Ceil = 2
    /\ waits = 2
    /\ retrier.Delay = 2

----------------------------------------------------------------------------
(* Properties of Func.Do: an abort inside another error                    *)

\* The error is one that Abort made, wrapped in another error.
WrappedAbort(e) == e # Nil /\ Len(e.layers) >= 2 /\ e.layers[1] # "abort" /\ e.layers[2] = "abort"

\* C38: Do returns an error of f only when that error is itself the one Abort
\* made; an error that wraps it is an ordinary failure: Do goes on to the next
\* Wait, and returns after it only because that Wait, or a later one,
\* returned false.
C38_WrappedAbortIsOrdinaryFailure ==
    /\ (doPC = "done" /\ doRet # Nil /\ doRet # ctxErr) =>
           Aborted(lastResult.e) /\ doRet = lastResult.e
    /\ (fRets # <<>> /\ WrappedAbort(lastResult.e)) =>
           /\ doPC \in {"wait", "select", "f", "done"}
           /\ doPC = "f" => Len(sleeps) = fCalls + 1
           /\ doPC = "done" => ctxErr # Nil /\ doRet = ctxErr

\* f returned an error wrapping an abort, Do waited and called f again.
C38_Witness ==
    /\ Len(fRets) = 2
    /\ WrappedAbort(fRets[1].e)
    /\ fRets[2].e = Nil
    /\ FirstDo /\ waits = 2
    /\ doPC = "done" /\ doRet = Nil

----------------------------------------------------------------------------
(* Properties of the Listener: when Accept returns                         *)

\* C39: Listener.Accept has returned exactly when the latest result of the
\* wrapped Accept in this call is a connection or an error that is not
\* temporary, and it returns that result; after a temporary error it is
\* sleeping or calling the wrapped Accept again, however many temporary errors
\* came before. LogTmpErr has been called once for each temporary error, with
\* that error, by the time the sleep for it begins.
C39_AcceptReturnsOnlyOnPermanentResult ==
    /\ lPC = "returned" =>
           /\ accepts # <<>>
           /\ accepts[Len(accepts)].call = lCall
           /\ ~TemporaryAt(Len(accepts))
           /\ lRet = accepts[Len(accepts)].err
    /\ (accepts # <<>> /\ accepts[Len(accepts)].call = lCall) =>
           IF TemporaryAt(Len(accepts)) THEN lPC \in {"sleep", "accept"}
           ELSE lPC = "returned"
    /\ Len(tmpLogged) = TempsUpTo(Len(accepts))
    /\ \A i \in 1..Len(tmpLogged) : tmpLogged[i] = TempNetError
    /\ Len(sleeps) = Len(tmpLogged)

\* Ten temporary errors in one call, the eleventh call of the wrapped Accept
\* about to be made.
C39_Witness ==
    /\ lCall = 1
    /\ Len(accepts) >= 10
    /\ \A i \in 1..Len(accepts) : TemporaryAt(i)
    /\ Len(tmpLogged) = Len(accepts)
    /\ lPC = "accept"

====
